---- MODULE Spec2Model ----
(***************************************************************************)
(* fetch-swarm: the Connection class of src/index.js (lines 80-253).       *)
(*                                                                         *)
(* One Connection is modelled together with the calls made on it.  A call  *)
(* is one invocation of swarm() (an async generator driven by its          *)
(* consumer's next() requests) or of one() (a swarm over a one-element     *)
(* input whose consumer is the body of one()).  The positions of a         *)
(* generator are its suspension points: the await of it.next() (line 171), *)
(* the two yields (lines 179 and 182) and the await of Promise.race (line  *)
(* 183).  Everything between two suspension points runs in one action,     *)
(* as it does on the single JavaScript thread.                             *)
(*                                                                         *)
(* Time is a discrete clock `now` (Date.now()).  setTimeout callbacks fire *)
(* when the clock reaches their due time; the clock does not advance while *)
(* a timer is due or a continuation is queued as a microtask.  A bundle    *)
(* whose delay is not positive starts its fetch in the microtask queued by *)
(* #bundle, which runs before the generator's own continuation: the        *)
(* admission and that start are one action.  Continuations of different    *)
(* calls that are queued together run in either order, and timers that are *)
(* due at the same time fire in either order.                              *)
(*                                                                         *)
(* Specifications: Spec (calls sharing one connection), FairSpec (Spec     *)
(* with progress), SpecSingle (one call on a fresh connection), SpecStop   *)
(* (the same with stop()), SpecConfig (construction, assignment to the     *)
(* configuration and a one() call, for every option set), SpecSerial and   *)
(* SpecTimed (the timed scenarios of the tests, default options, times in  *)
(* milliseconds), SpecOptions (one swarm, for every option set), SpecWrap  *)
(* (one swarm long enough for the id counter to wrap).                     *)
(***************************************************************************)
EXTENDS Integers, Sequences, FiniteSets, TLC

\* ---------------------------------------------------------------- bounds
MaxCalls == 2
MaxBundles == 3
MaxConcurrency == 2
MaxLatency == 2
MaxMinMs == 2
MaxRetry == 1
MaxTimed == 5

\* Date.now() when the connection is created; #lastFetchTime starts at 0,
\* so the first bundle of a connection is never delayed.
Epoch == 1000
\* Number.MAX_SAFE_INTEGER (2^53 - 1), scaled down: larger than the number
\* of admissions of every specification but SpecWrap, whose runs go once
\* around the counter.
MAX_SAFE_INTEGER == 8

Calls == 1..MaxCalls
Latencies == 1..MaxLatency
\* the test double's statuses: 200 delivers a response, 999 rejects
Statuses == {200, 999}

VARIABLES
    concurrency,            \* #concurrency
    minMsBetweenRequests,   \* #minMsBetweenRequests
    timeoutMs,              \* #timeoutMs
    retry,                  \* #retry
    conn,                   \* the operation that made the instance, or "none"
    options,                \* the options the instance was made with
    apiError,               \* what the last construction or assignment threw
    stopped,                \* the last stop() that resolved, or NoStop
    inflight,               \* #inflight: Map in insertion order, <<[id, b]>>
    lastFetchTime,          \* #lastFetchTime
    unique,                 \* #unique
    now,                    \* Date.now()
    bundles,                \* the promises made by #bundle, by request tag
    calls,                  \* the swarm()/one() invocations
    nreq                    \* descriptors pulled so far (tags them)

config == <<concurrency, minMsBetweenRequests, timeoutMs, retry>>
api == <<conn, options, apiError, stopped>>
vars == <<config, api, inflight, lastFetchTime, unique, now, bundles, calls,
          nreq>>

NoRes == [type |-> "none"]
NoStop == [resolved |-> FALSE]
Done == [done |-> TRUE]

\* a call that has not been made
NoCall == [kind |-> "none", pc |-> "idle", ordered |-> FALSE, shared |-> FALSE,
           reqDone |-> FALSE, req |-> Done, res |-> NoRes,
           pulled |-> <<>>, admitted |-> {}, yielded |-> <<>>,
           raceSet |-> {}, raceWin |-> 0, error |-> NoRes]

\* ------------------------------------------------------------- the Map
Size(inf) == Len(inf)

RECURSIVE IndexOfId(_, _, _)
IndexOfId(inf, id, i) ==
    IF i > Len(inf) THEN 0
    ELSE IF inf[i].id = id THEN i
    ELSE IndexOfId(inf, id, i + 1)

\* Map.prototype.set: an existing key keeps its position
MapSet(inf, id, b) ==
    LET i == IndexOfId(inf, id, 1) IN
    IF i = 0 THEN Append(inf, [id |-> id, b |-> b])
    ELSE [inf EXCEPT ![i] = [id |-> id, b |-> b]]

\* a delete that removes nothing: line 184 left out
MapDeleteNothing(inf, id) == inf

\* Map.prototype.delete
MapDelete(inf, id) ==
    LET i == IndexOfId(inf, id, 1) IN
    IF i = 0 THEN inf
    ELSE SubSeq(inf, 1, i - 1) \o SubSeq(inf, i + 1, Len(inf))

Settled(bs, b) == bs[b].state \in {"fulfilled", "rejected"}

\* --------------------------------------------------------- Promise.race
\* Promise.race subscribes to the values of the Map in insertion order at
\* the time of the call: among promises already settled the first in that
\* order wins; otherwise the first to settle later does (see Settle).
RECURSIVE FirstSettled(_, _, _)
FirstSettled(inf, bs, i) ==
    IF i > Len(inf) THEN 0
    ELSE IF Settled(bs, inf[i].b) THEN inf[i].b
    ELSE FirstSettled(inf, bs, i + 1)

Race(s, inf, bs) ==
    [s EXCEPT !.pc = "race",
              !.raceSet = {inf[i].b : i \in 1..Len(inf)},
              !.raceWin = FirstSettled(inf, bs, 1)]

\* what the test double's fetch resolves with (part_000:158-164)
Response(request) ==
    [status |-> request.status,
     ok |-> request.status >= 200 /\ request.status <= 299]

\* what a settled bundle resolves with (line 235) or rejects with (lines
\* 238-241)
Outcome(bs, b) ==
    IF bs[b].state = "fulfilled"
    THEN [type |-> "Result", id |-> bs[b].id, request |-> bs[b].request,
          response |-> Response(bs[b].request)]
    ELSE [type |-> "Error", id |-> bs[b].id, request |-> bs[b].request]

\* ------------------------------------------------------------ swarm loop
\* `yield res`: the consumer's pending next() receives res
Yield(s, at) == [s EXCEPT !.pc = at, !.yielded = Append(@, s.res)]

\* lines 170-171 when the input is not known to be exhausted: it.next()
PullNext(s, nx) ==
    [s EXCEPT !.pc = "awaitNext",
              !.req = nx,
              !.reqDone = (nx = Done),
              !.pulled = IF nx = Done THEN @ ELSE Append(@, nx)]

\* lines 178-185 without the `if (res) yield res` of line 179: the
\* generator returns while it still holds the last outcome
Check178NoLastYield(s, inf, bs, nx) ==
    IF Size(inf) = 0
    THEN [s EXCEPT !.pc = "done"]
    ELSE IF Size(inf) = concurrency \/ s.reqDone
    THEN IF s.res # NoRes THEN Yield(s, "yield182")
         ELSE Race(s, inf, bs)
    ELSE PullNext(s, nx)

\* lines 178-185, and the loop back to lines 170-171
Check178(s, inf, bs, nx) ==
    IF Size(inf) = 0
    THEN IF s.res # NoRes THEN Yield(s, "yield179")
         ELSE [s EXCEPT !.pc = "done"]
    ELSE IF Size(inf) = concurrency \/ s.reqDone
    THEN IF s.res # NoRes THEN Yield(s, "yield182")
         ELSE Race(s, inf, bs)
    ELSE PullNext(s, nx)

\* a loop that yields the outcome it holds before it refills the Map
LoopTopYieldFirst(s, inf, bs, nx) ==
    IF s.res # NoRes /\ Size(inf) > 0 THEN Yield(s, "yield182")
    ELSE IF ~s.reqDone THEN PullNext(s, nx)
    ELSE Check178(s, inf, bs, nx)

\* the top of the while loop, lines 169-171
LoopTop(s, inf, bs, nx) ==
    IF ~s.reqDone THEN PullNext(s, nx)
    ELSE Check178(s, inf, bs, nx)

\* --------------------------------------------------------------- #bundle
NextUnique(u) == IF u + 1 = MAX_SAFE_INTEGER THEN 1 ELSE u + 1

\* a limiter that spaces every fetch from the moment of its admission
DelayMsFromNow == minMsBetweenRequests

DelayMs == lastFetchTime + minMsBetweenRequests - now

\* the promise p of #bundle(request) made by call c
Bundle(c, request) ==
    IF DelayMs > 0
    THEN [id |-> unique, request |-> request, owner |-> c,
          state |-> "delay", due |-> now + DelayMs, start |-> 0]
    ELSE [id |-> unique, request |-> request, owner |-> c,
          state |-> "fetch", due |-> now + request.ms, start |-> now]

\* ----------------------------------------------------------- construction
\* the class-field initialisers, lines 84-87
DefaultConcurrency == 2
DefaultMinMsBetweenRequests == 150
DefaultTimeoutMs == 0
DefaultRetry == 0

\* Connection.#privacy, line 81: a Symbol no caller can obtain
Privacy == "Symbol(ensure constructor is private)"
\* what a caller can pass as the second argument of `new Connection`
Tokens == {"undefined", "Symbol(forged)"}

NoError == [type |-> "none"]
\* line 94
ConstructorError ==
    [type |-> "TypeError",
     message |-> "The constructor is not intended to be used; use Connection.create instead"]

\* `options?.name || this.#name`: a given 0 falls back to the default
OptTruthy(o, name, default) ==
    IF name \in DOMAIN o /\ o[name] # 0 THEN o[name] ELSE default

\* `options?.name ?? this.#name`, lines 97-100: options are a record that
\* holds the fields the caller gave
Opt(o, name, default) == IF name \in DOMAIN o THEN o[name] ELSE default

\* the constructor without the check of lines 93-95
ConstructorUnchecked(o, token) ==
    [error |-> NoError,
     concurrency |-> Opt(o, "concurrency", DefaultConcurrency),
     minMsBetweenRequests |->
         Opt(o, "minMsBetweenRequests", DefaultMinMsBetweenRequests),
     timeoutMs |-> Opt(o, "timeoutMs", DefaultTimeoutMs),
     retry |-> Opt(o, "retry", DefaultRetry)]

\* the constructor, lines 92-101: what it throws and the fields it sets
Constructor(o, token) ==
    IF token # Privacy
    THEN [error |-> ConstructorError]
    ELSE [error |-> NoError,
          concurrency |-> Opt(o, "concurrency", DefaultConcurrency),
          minMsBetweenRequests |->
              Opt(o, "minMsBetweenRequests", DefaultMinMsBetweenRequests),
          timeoutMs |-> Opt(o, "timeoutMs", DefaultTimeoutMs),
          retry |-> Opt(o, "retry", DefaultRetry)]

\* Connection.create() without options
NoOptions == [name \in {} |-> 0]

\* options of connections that calls share: the rate limit on or off
SharedOptions ==
    {[concurrency |-> k, minMsBetweenRequests |-> m] :
        k \in 1..MaxConcurrency, m \in {0, MaxMinMs}}

\* options a caller may pass to Connection.create: none, some, all; the
\* code accepts any value for any of them
AnyOptions ==
    {NoOptions}
    \cup {[concurrency |-> k] : k \in 0..MaxConcurrency}
    \cup {[timeoutMs |-> t, retry |-> r] : t \in {0, MaxLatency - 1}, r \in 0..MaxRetry}
    \cup {[concurrency |-> k, minMsBetweenRequests |-> m, timeoutMs |-> t,
           retry |-> r] :
              k \in 0..MaxConcurrency, m \in {0, MaxMinMs},
              t \in {0, MaxLatency - 1}, r \in 0..MaxRetry}

\* ------------------------------------------------------------------ Init
\* the state once `await Connection.create(o)` has returned (lines 113-115
\* and the field initialisers of lines 146-148), with room for n calls
InitConn(o, n) ==
    LET obj == Constructor(o, Privacy) IN
    /\ concurrency = obj.concurrency
    /\ minMsBetweenRequests = obj.minMsBetweenRequests
    /\ timeoutMs = obj.timeoutMs
    /\ retry = obj.retry
    /\ conn = "create"
    /\ options = o
    /\ apiError = NoError
    /\ stopped = NoStop
    /\ inflight = <<>>
    /\ lastFetchTime = 0
    /\ unique = 1
    /\ now = Epoch
    /\ bundles = <<>>
    /\ calls = [c \in 1..n |-> NoCall]
    /\ nreq = 0

Init == \E o \in SharedOptions : InitConn(o, MaxCalls)

\* before any connection exists
InitNew ==
    /\ concurrency = DefaultConcurrency
    /\ minMsBetweenRequests = DefaultMinMsBetweenRequests
    /\ timeoutMs = DefaultTimeoutMs
    /\ retry = DefaultRetry
    /\ conn = "none"
    /\ options = NoOptions
    /\ apiError = NoError
    /\ stopped = NoStop
    /\ inflight = <<>>
    /\ lastFetchTime = 0
    /\ unique = 1
    /\ now = Epoch
    /\ bundles = <<>>
    /\ calls = [c \in 1..1 |-> NoCall]
    /\ nreq = 0

\* ---------------------------------------------------------- the iterator
\* it.next() of the caller's iterable: the next descriptor or done
Descriptors(tag) ==
    {[tag |-> tag, status |-> st, ms |-> ms] : st \in Statuses, ms \in Latencies}

NextOf(c) ==
    IF calls[c].kind = "one"
    THEN {Done}
    ELSE {Done} \cup
         (IF nreq < MaxBundles THEN Descriptors(nreq + 1) ELSE {})

Tagged(nx) == IF nx = Done THEN nreq ELSE nreq + 1

\* the same with a response that is not a 2xx among the statuses
AnyStatuses == {200, 404, 999}
AnyDescriptors(tag) ==
    {[tag |-> tag, status |-> st, ms |-> ms] : st \in AnyStatuses, ms \in Latencies}

AnyNextOf(c) ==
    IF calls[c].kind = "one"
    THEN {Done}
    ELSE {Done} \cup
         (IF nreq < MaxBundles THEN AnyDescriptors(nreq + 1) ELSE {})

AnyOneOf == IF nreq < MaxBundles THEN AnyDescriptors(nreq + 1) ELSE {}

\* the request given to one()
OneOf == IF nreq < MaxBundles THEN Descriptors(nreq + 1) ELSE {}

\* calls are made in the order of their indices
IsNextCall(c) ==
    /\ calls[c].kind = "none"
    /\ \A d \in DOMAIN calls : d < c => calls[d].kind # "none"

\* a call has ended when its generator returned or threw, or when the
\* assertion of one() (line 142) failed on a second outcome
Ended(s) ==
    \/ s.pc \in {"done", "thrown"}
    \/ s.kind = "one" /\ Len(s.yielded) = 2

Active(s) == s.kind # "none" /\ ~Ended(s)

\* the calls as they are once call c is made: a call made while another
\* is active shares the connection with it
Issue(c, s) ==
    LET busy == \E d \in DOMAIN calls : Active(calls[d]) IN
    [d \in DOMAIN calls |->
        IF d = c THEN [s EXCEPT !.shared = busy]
        ELSE IF Active(calls[d]) THEN [calls[d] EXCEPT !.shared = TRUE]
        ELSE calls[d]]

\* --------------------------------------------------------------- actions
\* `new Connection(o, token)`, lines 92-101: throws, or makes the instance
Construct(o, token, by) ==
    /\ conn = "none"
    /\ LET obj == Constructor(o, token) IN
       IF obj.error # NoError
       THEN /\ apiError' = obj.error
            /\ UNCHANGED <<config, conn, options>>
       ELSE /\ concurrency' = obj.concurrency
            /\ minMsBetweenRequests' = obj.minMsBetweenRequests
            /\ timeoutMs' = obj.timeoutMs
            /\ retry' = obj.retry
            /\ conn' = by
            /\ options' = o
            /\ apiError' = NoError
    /\ UNCHANGED <<stopped, inflight, lastFetchTime, unique, now, bundles,
                   calls, nreq>>

\* Connection.create(o), lines 113-115
Create(o) == Construct(o, Privacy, "create")

\* a caller's own `new Connection(o, token)`
New(o, token) == token \in Tokens /\ Construct(o, token, "new")

\* the accessors of lines 117-131
ConfigNames == {"concurrency", "minMsBetweenRequests", "timeoutMs", "retry"}

\* what `conn.name = v` throws in module code: the property is an accessor
\* with a getter and no setter
SetterError(name) ==
    [type |-> "TypeError", name |-> name,
     message |-> "Cannot set property which has only a getter"]

\* an assignment that stores the value, as a data property would
AssignWrites(name, v) ==
    /\ conn # "none"
    /\ apiError' = NoError
    /\ concurrency' = IF name = "concurrency" THEN v ELSE concurrency
    /\ minMsBetweenRequests' =
           IF name = "minMsBetweenRequests" THEN v ELSE minMsBetweenRequests
    /\ timeoutMs' = IF name = "timeoutMs" THEN v ELSE timeoutMs
    /\ retry' = IF name = "retry" THEN v ELSE retry
    /\ UNCHANGED <<conn, options, stopped, inflight, lastFetchTime, unique,
                   now, bundles, calls, nreq>>

\* `conn.name = v` in module code, lines 117-131
Assign(name, v) ==
    /\ conn # "none"
    /\ apiError' = SetterError(name)
    /\ UNCHANGED <<config, conn, options, stopped, inflight, lastFetchTime,
                   unique, now, bundles, calls, nreq>>

\* `await conn.stop(options)` returns, lines 204-205: the body is empty;
\* the caller goes on once the continuations queued before its own have
\* run.  kill is options.killExecuting, true by default (line 202).
Stop(kill) ==
    /\ conn # "none"
    /\ \A c \in DOMAIN calls :
          ~(calls[c].pc = "awaitNext" \/ (calls[c].pc = "race" /\ calls[c].raceWin # 0))
    /\ stopped' = [resolved |-> TRUE, kill |-> kill,
                    active |-> {c \in DOMAIN calls : Active(calls[c])}]
    /\ UNCHANGED <<config, conn, options, apiError, inflight, lastFetchTime,
                   unique, now, bundles, calls, nreq>>

\* conn.swarm(requests, options): makes the generator, runs nothing
CallSwarm(c, ord) ==
    /\ conn # "none"
    /\ IsNextCall(c)
    /\ calls' = Issue(c, [NoCall EXCEPT !.kind = "swarm", !.pc = "created",
                                         !.ordered = ord])
    /\ UNCHANGED <<config, api, inflight, lastFetchTime,
                   unique, now, bundles, nreq>>

\* the consumer's first next(): lines 165-171
Start(c, nx) ==
    /\ calls[c].pc = "created"
    /\ calls' = [calls EXCEPT ![c] = LoopTop(@, inflight, bundles, nx)]
    /\ nreq' = Tagged(nx)
    /\ UNCHANGED <<config, api, inflight, lastFetchTime,
                   unique, now, bundles>>

\* conn.one(request), lines 139-141: swarm([request]) and its first next()
CallOne(c, r) ==
    /\ conn # "none"
    /\ IsNextCall(c)
    /\ calls' = Issue(c, PullNext([NoCall EXCEPT !.kind = "one"], r))
    /\ nreq' = nreq + 1
    /\ UNCHANGED <<config, api, inflight, lastFetchTime,
                   unique, now, bundles>>

\* the continuation of `await it.next()`: lines 172-185, then 170-171
AfterPull(c, nx) ==
    /\ calls[c].pc = "awaitNext"
    /\ IF calls[c].reqDone
       THEN /\ calls' = [calls EXCEPT ![c] =
                            Check178(@, inflight, bundles, nx)]
            /\ nreq' = nreq
            /\ UNCHANGED <<inflight, bundles, unique, lastFetchTime>>
       ELSE LET r == calls[c].req
                p == Bundle(c, r)
                inf == MapSet(inflight, p.id, r.tag)
                bs == bundles @@ (r.tag :> p)
                s == [calls[c] EXCEPT !.admitted = @ \cup {r.tag}]
                t == Check178(s, inf, bs, nx)
            IN  /\ inflight' = inf
                /\ bundles' = bs
                /\ unique' = NextUnique(unique)
                /\ lastFetchTime' =
                       IF p.state = "fetch" THEN now ELSE lastFetchTime
                /\ calls' = [calls EXCEPT ![c] = t]
                /\ nreq' = IF t.pc = "awaitNext" THEN Tagged(nx) ELSE nreq
    /\ UNCHANGED <<config, api, now>>

\* the consumer's next() while the generator is suspended at a yield:
\* line 179 goes on to `return`, line 182 to Promise.race (line 183).
\* one() requests a second outcome and no more (line 142).
Resume(c) ==
    /\ calls[c].pc \in {"yield179", "yield182"}
    /\ calls[c].kind = "one" => Len(calls[c].yielded) < 2
    /\ calls' = [calls EXCEPT ![c] =
                    IF @.pc = "yield179" THEN [@ EXCEPT !.pc = "done"]
                    ELSE Race(@, inflight, bundles)]
    /\ UNCHANGED <<config, api, inflight, lastFetchTime,
                   unique, now, bundles, nreq>>

\* the continuation of `await Promise.race(...)`: line 184 and the loop,
\* or the exception that ends the generator when the winner rejected
RaceResume(c, nx) ==
    /\ calls[c].pc = "race"
    /\ calls[c].raceWin # 0
    /\ LET w == calls[c].raceWin
           out == Outcome(bundles, w)
       IN  IF out.type = "Result"
           THEN LET inf == MapDelete(inflight, out.id)
                    s == [calls[c] EXCEPT !.res = out, !.raceSet = {},
                                          !.raceWin = 0]
                    t == LoopTop(s, inf, bundles, nx)
                IN  /\ inflight' = inf
                    /\ calls' = [calls EXCEPT ![c] = t]
                    /\ nreq' = IF t.pc = "awaitNext" THEN Tagged(nx) ELSE nreq
           ELSE /\ calls' = [calls EXCEPT ![c] =
                                [@ EXCEPT !.pc = "thrown", !.error = out,
                                          !.raceSet = {}, !.raceWin = 0]]
                /\ UNCHANGED <<inflight, nreq>>
    /\ UNCHANGED <<config, api, lastFetchTime, unique,
                   now, bundles>>

\* a continuation is queued: it runs before any timer and before time passes
MicrotaskPending ==
    \E c \in DOMAIN calls :
        \/ calls[c].pc = "awaitNext"
        \/ calls[c].pc = "race" /\ calls[c].raceWin # 0
        \/ /\ calls[c].kind = "one"
           /\ calls[c].pc \in {"yield179", "yield182"}
           /\ Len(calls[c].yielded) < 2

TimerPending == \E b \in DOMAIN bundles : bundles[b].state \in {"delay", "fetch"}
TimerDue ==
    \E b \in DOMAIN bundles :
        bundles[b].state \in {"delay", "fetch"} /\ bundles[b].due = now

\* the callback of delayPromise (setTimeout, line 220): lines 232-246
StartFetch(b) ==
    /\ ~MicrotaskPending
    /\ b \in DOMAIN bundles
    /\ bundles[b].state = "delay"
    /\ bundles[b].due = now
    /\ bundles' = [bundles EXCEPT ![b] =
                      [@ EXCEPT !.state = "fetch", !.start = now,
                                !.due = now + bundles[b].request.ms]]
    /\ lastFetchTime' = now
    /\ UNCHANGED <<config, api, inflight, unique, now,
                   calls, nreq>>

\* a bundle that rejects for every response that is not ok
SettleRejectsNotOk(b) ==
    /\ ~MicrotaskPending
    /\ b \in DOMAIN bundles
    /\ bundles[b].state = "fetch"
    /\ bundles[b].due = now
    /\ bundles' = [bundles EXCEPT ![b] =
                      [@ EXCEPT !.state = IF Response(bundles[b].request).ok
                                          THEN "fulfilled" ELSE "rejected"]]
    /\ calls' = [c \in DOMAIN calls |->
                    IF /\ calls[c].pc = "race"
                       /\ calls[c].raceWin = 0
                       /\ b \in calls[c].raceSet
                    THEN [calls[c] EXCEPT !.raceWin = b]
                    ELSE calls[c]]
    /\ UNCHANGED <<config, api, inflight, lastFetchTime,
                   unique, now, nreq>>

\* fetch(request) settles: lines 233-244 resolve or reject the bundle
Settle(b) ==
    /\ ~MicrotaskPending
    /\ b \in DOMAIN bundles
    /\ bundles[b].state = "fetch"
    /\ bundles[b].due = now
    /\ bundles' = [bundles EXCEPT ![b] =
                      [@ EXCEPT !.state = IF bundles[b].request.status = 999
                                          THEN "rejected" ELSE "fulfilled"]]
    /\ calls' = [c \in DOMAIN calls |->
                    IF /\ calls[c].pc = "race"
                       /\ calls[c].raceWin = 0
                       /\ b \in calls[c].raceSet
                    THEN [calls[c] EXCEPT !.raceWin = b]
                    ELSE calls[c]]
    /\ UNCHANGED <<config, api, inflight, lastFetchTime,
                   unique, now, nreq>>

\* a millisecond unit passes
Tick ==
    /\ ~MicrotaskPending
    /\ ~TimerDue
    /\ TimerPending \/ now < lastFetchTime + minMsBetweenRequests
    /\ now' = now + 1
    /\ UNCHANGED <<config, api, inflight, lastFetchTime,
                   unique, bundles, calls, nreq>>

\* the instants at which a timer fires or the rate limit lapses
Instants ==
    {bundles[b].due : b \in {x \in DOMAIN bundles :
                                bundles[x].state \in {"delay", "fetch"}}}
    \cup {lastFetchTime + minMsBetweenRequests}

NextInstant ==
    CHOOSE t \in Instants :
        t > now /\ \A u \in Instants : u > now => t <= u

\* nothing happens until the next such instant: Tick, repeated
Sleep ==
    /\ ~MicrotaskPending
    /\ ~TimerDue
    /\ TimerPending \/ now < lastFetchTime + minMsBetweenRequests
    /\ now' = NextInstant
    /\ UNCHANGED <<config, api, inflight, lastFetchTime, unique, bundles,
                   calls, nreq>>

Next ==
    \/ \E c \in Calls : \E ord \in BOOLEAN : CallSwarm(c, ord)
    \/ \E c \in Calls : \E r \in OneOf : CallOne(c, r)
    \/ \E c \in Calls : \E nx \in NextOf(c) : Start(c, nx)
    \/ \E c \in Calls : \E nx \in NextOf(c) : AfterPull(c, nx)
    \/ \E c \in Calls : Resume(c)
    \/ \E c \in Calls : \E nx \in NextOf(c) : RaceResume(c, nx)
    \/ \E b \in DOMAIN bundles : StartFetch(b)
    \/ \E b \in DOMAIN bundles : Settle(b)
    \/ Tick

Spec == Init /\ [][Next]_vars

\* a single swarm() or one() call on a fresh connection
NextSingle ==
    \/ \E ord \in BOOLEAN : CallSwarm(1, ord)
    \/ \E r \in AnyOneOf : CallOne(1, r)
    \/ \E nx \in AnyNextOf(1) : Start(1, nx)
    \/ \E nx \in AnyNextOf(1) : AfterPull(1, nx)
    \/ Resume(1)
    \/ \E nx \in AnyNextOf(1) : RaceResume(1, nx)
    \/ \E b \in DOMAIN bundles : StartFetch(b)
    \/ \E b \in DOMAIN bundles : Settle(b)
    \/ Tick

SpecSingle == Init /\ [][NextSingle]_vars

\* the same, and stop() at any time
NextStop ==
    \/ NextSingle
    \/ \E kill \in BOOLEAN : Stop(kill)

SpecStop == Init /\ [][NextStop]_vars

\* every fetch settles, every timer fires, every continuation runs and
\* every consumer keeps requesting outcomes; nobody has to make a call
Progress ==
    \/ \E c \in Calls : \E nx \in NextOf(c) : Start(c, nx)
    \/ \E c \in Calls : \E nx \in NextOf(c) : AfterPull(c, nx)
    \/ \E c \in Calls : Resume(c)
    \/ \E c \in Calls : \E nx \in NextOf(c) : RaceResume(c, nx)
    \/ \E b \in DOMAIN bundles : StartFetch(b)
    \/ \E b \in DOMAIN bundles : Settle(b)
    \/ Tick

FairSpec == Spec /\ WF_vars(Progress)

\* serial one() calls on a connection made with default options, as in the
\* test at part_000:273-288: each call is made when the one before has
\* ended, every fetch delivers a response, and time passes only while a
\* timer is pending
SerialLatencies == {100, 200, 300, 400}

InitSerial == InitConn(NoOptions, MaxTimed)

NextSerial ==
    \/ \E c \in DOMAIN calls : \E ms \in SerialLatencies :
          /\ \A d \in DOMAIN calls : d < c => Ended(calls[d])
          /\ CallOne(c, [tag |-> nreq + 1, status |-> 200, ms |-> ms])
    \/ \E c \in DOMAIN calls : AfterPull(c, Done)
    \/ \E c \in DOMAIN calls : Resume(c)
    \/ \E c \in DOMAIN calls : RaceResume(c, Done)
    \/ \E b \in DOMAIN bundles : StartFetch(b)
    \/ \E b \in DOMAIN bundles : Settle(b)
    \/ TimerPending /\ Sleep

SpecSerial == InitSerial /\ [][NextSerial]_vars

\* one swarm on a connection made with default options whose consumer
\* requests the next outcome as soon as it has one, as the `for await`
\* loops of the tests at part_000:311-334 do: every fetch delivers a
\* response, and timers fire and time passes only when the consumer waits
SwarmLatencies == {200, 300, 400, 500, 700}

TimedNextOf ==
    {Done} \cup
    (IF nreq < MaxTimed
     THEN {[tag |-> nreq + 1, status |-> 200, ms |-> ms] : ms \in SwarmLatencies}
     ELSE {})

ConsumerPending == calls[1].pc \in {"created", "yield179", "yield182"}

InitTimed == InitConn(NoOptions, 1)

NextTimed ==
    \/ CallSwarm(1, FALSE)
    \/ \E nx \in TimedNextOf : Start(1, nx)
    \/ \E nx \in TimedNextOf : AfterPull(1, nx)
    \/ Resume(1)
    \/ \E nx \in TimedNextOf : RaceResume(1, nx)
    \/ \E b \in DOMAIN bundles : ~ConsumerPending /\ StartFetch(b)
    \/ \E b \in DOMAIN bundles : ~ConsumerPending /\ Settle(b)
    \/ ~ConsumerPending /\ TimerPending /\ Sleep

SpecTimed == InitTimed /\ [][NextTimed]_vars

\* one swarm on a connection created with any option set
InitOptions == \E o \in AnyOptions : InitConn(o, 1)

NextOptions ==
    \/ CallSwarm(1, FALSE)
    \/ \E nx \in AnyNextOf(1) : Start(1, nx)
    \/ \E nx \in AnyNextOf(1) : AfterPull(1, nx)
    \/ Resume(1)
    \/ \E nx \in AnyNextOf(1) : RaceResume(1, nx)
    \/ \E b \in DOMAIN bundles : StartFetch(b)
    \/ \E b \in DOMAIN bundles : Settle(b)
    \/ Sleep

SpecOptions == InitOptions /\ [][NextOptions]_vars

\* one swarm over an input long enough for #unique to come back to 1: the
\* fetches deliver their response, soon or after the whole lap
WrapLatencies == {1, 4 * MAX_SAFE_INTEGER}

WrapNextOf ==
    {Done} \cup
    (IF nreq < MAX_SAFE_INTEGER
     THEN {[tag |-> nreq + 1, status |-> 200, ms |-> ms] : ms \in WrapLatencies}
     ELSE {})

InitWrap == \E o \in SharedOptions : InitConn(o, 1)

NextWrap ==
    \/ CallSwarm(1, FALSE)
    \/ \E nx \in WrapNextOf : Start(1, nx)
    \/ \E nx \in WrapNextOf : AfterPull(1, nx)
    \/ Resume(1)
    \/ \E nx \in WrapNextOf : RaceResume(1, nx)
    \/ \E b \in DOMAIN bundles : StartFetch(b)
    \/ \E b \in DOMAIN bundles : Settle(b)
    \/ Sleep

SpecWrap == InitWrap /\ [][NextWrap]_vars

\* making the connection (or failing to), assigning to its configuration,
\* and a one() call on it; the first fetch of a connection is never
\* delayed, so no delay timer fires
AssignValues == 0..MaxConcurrency
NextConfig ==
    \/ \E o \in AnyOptions : \E token \in Tokens : New(o, token)
    \/ \E o \in AnyOptions : Create(o)
    \/ \E name \in ConfigNames : \E v \in AssignValues : Assign(name, v)
    \/ \E r \in OneOf : CallOne(1, r)
    \/ AfterPull(1, Done)
    \/ Resume(1)
    \/ RaceResume(1, Done)
    \/ \E b \in DOMAIN bundles : Settle(b)
    \/ Sleep

SpecConfig == InitNew /\ [][NextConfig]_vars

\* ================================================================ claims
Swarms == {c \in DOMAIN calls : calls[c].kind = "swarm"}
Ones == {c \in DOMAIN calls : calls[c].kind = "one"}

\* the tags of the descriptors pulled and of the outcomes yielded by a call
PulledTags(c) == [i \in 1..Len(calls[c].pulled) |-> calls[c].pulled[i].tag]
YieldedTags(c) == [i \in 1..Len(calls[c].yielded) |-> calls[c].yielded[i].request.tag]
Range(f) == {f[i] : i \in DOMAIN f}
Injective(f) == \A i, j \in DOMAIN f : f[i] = f[j] => i = j

Dispatched == {b \in DOMAIN bundles : bundles[b].state # "delay"}
AllSucceed(c) == \A i \in 1..Len(calls[c].pulled) : calls[c].pulled[i].status # 999
Abs(x) == IF x < 0 THEN -x ELSE x

\* C1: while a swarm that never shared its connection with another call
\* is running, the in-flight set holds at most `concurrency` bundles.
C1_SoleSwarmWithinConcurrency ==
    \A c \in Swarms :
        Active(calls[c]) /\ ~calls[c].shared => Size(inflight) <= concurrency

\* C2: a single swarm on a fresh connection whose fetches all succeed never
\* throws and never waits on an empty race, yields only results of its own
\* descriptors and none twice, and when it reports done it has dispatched
\* and yielded exactly one per descriptor (nothing at all for no input).
C2_SingleSwarmYieldsEachOnce ==
    AllSucceed(1) =>
        /\ calls[1].pc # "thrown"
        /\ calls[1].pc = "race" => calls[1].raceSet # {}
        /\ Injective(YieldedTags(1))
        /\ Range(YieldedTags(1)) \subseteq Range(PulledTags(1))
        /\ \A i \in 1..Len(calls[1].yielded) : calls[1].yielded[i].type = "Result"
        /\ calls[1].pc = "done" =>
              /\ calls[1].reqDone
              /\ Len(calls[1].yielded) = Len(calls[1].pulled)
              /\ Range(YieldedTags(1)) = Range(PulledTags(1))
              /\ Dispatched = Range(PulledTags(1))
              /\ Cardinality(Dispatched) = Len(calls[1].pulled)
              /\ inflight = <<>>

C2_Witness ==
    /\ calls[1].pc = "done"
    /\ AllSucceed(1)
    /\ Len(calls[1].pulled) = 3
    /\ Len(calls[1].yielded) = 3
    /\ concurrency = 2

\* C3: any two calls of fetch on the connection are at least
\* minMsBetweenRequests apart.
C3_DispatchStartsSpaced ==
    \A a, b \in Dispatched :
        a # b => Abs(bundles[a].start - bundles[b].start) >= minMsBetweenRequests

\* C4: a swarm without `ordered` (here the first call of the connection,
\* sharing it with no other) yields in completion order: an outcome
\* yielded earlier settled no later than one yielded afterwards.
C4_YieldsInCompletionOrder ==
    calls[1].kind = "swarm" /\ ~calls[1].ordered /\ ~calls[1].shared =>
        \A i, j \in 1..Len(calls[1].yielded) :
            i < j => bundles[YieldedTags(1)[i]].due <= bundles[YieldedTags(1)[j]].due

\* C5: a failed fetch does not end a swarm: the swarm started on a fresh
\* connection ends only by reporting done, having yielded an outcome
\* (Result or Failure) for every descriptor of its input.
C5_FailureIsYieldedInline ==
    calls[1].kind = "swarm" /\ ~calls[1].shared /\ Ended(calls[1]) =>
        /\ calls[1].pc = "done"
        /\ Range(YieldedTags(1)) = Range(PulledTags(1))

\* C6: one(request), made after the earlier calls of the connection have
\* ended, rejects only with the error of its own request, and it does
\* reject with it when the fetch of its request fails.
C6_OneRejectsWithOwnError ==
    \A c \in Ones :
        ~calls[c].shared =>
            /\ calls[c].pc = "thrown" =>
                  calls[c].error.request = calls[c].pulled[1]
            /\ Ended(calls[c]) /\ calls[c].pulled[1].status = 999 =>
                  /\ calls[c].pc = "thrown"
                  /\ calls[c].error.request = calls[c].pulled[1]

\* C7: while two or more calls are active on the connection, the in-flight
\* set holds at most `concurrency` bundles.
C7_SharedWithinConcurrency ==
    Cardinality({c \in Calls : Active(calls[c])}) >= 2 =>
        Size(inflight) <= concurrency

\* C8: when only swarms run on the connection and no fetch has failed,
\* every outcome is yielded by the swarm that admitted its request and is
\* yielded once.
C8_OutcomeYieldedByOwnerOnce ==
    (\A c \in Calls : calls[c].kind # "one" /\ calls[c].pc # "thrown") =>
        /\ \A c \in Swarms : Range(YieldedTags(c)) \subseteq calls[c].admitted
        /\ \A c \in Swarms : Injective(YieldedTags(c))
        /\ \A c, d \in Swarms :
              c # d => Range(YieldedTags(c)) \cap Range(YieldedTags(d)) = {}

\* C9: when no fetch fails, every swarm whose consumer has requested its
\* first outcome eventually reports done.
AnyFailure == \E c \in Calls : ~AllSucceed(c)
C9_EverySwarmReportsDone ==
    \A c \in Calls :
        (calls[c].kind = "swarm" /\ calls[c].pc # "created")
            ~> (calls[c].pc = "done" \/ AnyFailure)

\* C10: a swarm called with ordered = true (here the first call of the
\* connection, sharing it with no other) yields its outcomes in the order
\* of its input.
C10_OrderedYieldsInInputOrder ==
    calls[1].kind = "swarm" /\ calls[1].ordered /\ ~calls[1].shared =>
        /\ Len(calls[1].yielded) <= Len(calls[1].pulled)
        /\ YieldedTags(1) = SubSeq(PulledTags(1), 1, Len(calls[1].yielded))

\* the calls of fetch made for the request tagged b: #bundle calls fetch
\* once, in the callback of the delay (line 232), and nothing calls it again
FetchCalls(b) ==
    IF b \in DOMAIN bundles /\ bundles[b].state # "delay" THEN 1 ELSE 0

\* C11: when one(request), sharing the connection with no other call,
\* rejects with the failure of its own request, fetch has been called for
\* that request retry + 1 times.
C11_FailureAfterRetries ==
    \A c \in Ones :
        /\ ~calls[c].shared
        /\ calls[c].pc = "thrown"
        /\ calls[c].error.request = calls[c].pulled[1]
        => FetchCalls(calls[c].pulled[1].tag) = retry + 1

\* C12: from a state in which stop() has resolved, no step of a call that
\* was active when it did admits a bundle, and when stop() was to kill
\* executing fetches (the default) no such step yields an outcome.
C12_NothingAfterStop ==
    [][stopped.resolved =>
          \A c \in stopped.active :
              /\ calls'[c].admitted = calls[c].admitted
              /\ stopped.kill => calls'[c].yielded = calls[c].yielded]_vars

\* C13: one(request) on a fresh connection, the fetch of the request
\* delivering a response: the call never throws and never waits on an
\* empty race, its generator yields no second outcome (the assertion of
\* line 142 holds), and when the call has ended the generator has reported
\* done after yielding one outcome, the Result of the given request.
C13_OneReturnsItsResult ==
    calls[1].kind = "one" /\ calls[1].pulled[1].status # 999 =>
        /\ calls[1].pc # "thrown"
        /\ calls[1].pc = "race" => calls[1].raceSet # {}
        /\ Len(calls[1].yielded) <= 1
        /\ Ended(calls[1]) =>
              /\ calls[1].pc = "done"
              /\ Len(calls[1].pulled) = 1
              /\ Len(calls[1].yielded) = 1
              /\ calls[1].yielded[1].type = "Result"
              /\ calls[1].yielded[1].request = calls[1].pulled[1]
              /\ inflight = <<>>

C13_Witness ==
    /\ calls[1].kind = "one"
    /\ calls[1].pc = "done"
    /\ Len(calls[1].yielded) = 1
    /\ calls[1].yielded[1].type = "Result"
    /\ calls[1].yielded[1].request = calls[1].pulled[1]

\* the fields as the constructor set them from the options given to create
AsCreated ==
    LET obj == Constructor(options, Privacy) IN
    /\ concurrency = obj.concurrency
    /\ minMsBetweenRequests = obj.minMsBetweenRequests
    /\ timeoutMs = obj.timeoutMs
    /\ retry = obj.retry

\* C14: on a connection that exists the four configuration values are at
\* all times the ones it was created with, whatever has been assigned; an
\* assignment leaves its TypeError behind; and a one() call whose fetch
\* delivers a response still ends by returning the Result of its request.
C14_AssignmentFailsAndChangesNothing ==
    conn # "none" =>
        /\ AsCreated
        /\ apiError \in {NoError} \cup {SetterError(name) : name \in ConfigNames}
        /\ calls[1].kind = "one" /\ calls[1].pulled[1].status # 999 =>
              /\ calls[1].pc # "thrown"
              /\ Len(calls[1].yielded) <= 1
              /\ Ended(calls[1]) =>
                    /\ calls[1].pc = "done"
                    /\ calls[1].yielded[1].type = "Result"
                    /\ calls[1].yielded[1].request = calls[1].pulled[1]

\* an assignment to concurrency has failed, and a one() call made on the
\* connection has returned its Result
C14_Witness ==
    /\ conn = "create"
    /\ apiError = SetterError("concurrency")
    /\ AsCreated
    /\ calls[1].pc = "done"
    /\ Len(calls[1].yielded) = 1
    /\ calls[1].yielded[1].type = "Result"

\* C15: no instance is ever made by a caller's own `new Connection`; while
\* no connection exists nothing has been called on one, and the only error
\* thrown so far is the TypeError of the constructor; every connection
\* that exists was made by Connection.create.
C15_OnlyCreateMakesConnections ==
    /\ conn \in {"none", "create"}
    /\ apiError = ConstructorError => conn = "none"
    /\ conn = "none" =>
          /\ apiError \in {NoError, ConstructorError}
          /\ \A c \in DOMAIN calls : calls[c].kind = "none"
          /\ bundles = <<>>
          /\ inflight = <<>>

\* `new Connection(options)` has thrown, and no connection exists
C15_Witness ==
    /\ conn = "none"
    /\ apiError = ConstructorError
    /\ apiError.message =
          "The constructor is not intended to be used; use Connection.create instead"

\* C16: every connection that Connection.create returned has options in
\* range: a concurrency of at least 1, no negative rate limit, timeout or
\* retry count.
C16_CreateRejectsOutOfRange ==
    conn = "create" =>
        /\ concurrency >= 1
        /\ minMsBetweenRequests >= 0
        /\ timeoutMs >= 0
        /\ retry >= 0

\* the latency of the fetch of the k-th serial call, and the sum of the
\* first k
Latency(k) == calls[k].pulled[1].ms
RECURSIVE SumLatency(_)
SumLatency(k) == IF k = 0 THEN 0 ELSE SumLatency(k - 1) + Latency(k)

\* the k-th serial call has ended at the sum of the first k latencies
\* after the start: its fetch settled then, and until the next call is
\* made the clock still reads that instant
CompletedAtSum(k) ==
    /\ calls[k].pc = "done"
    /\ bundles[calls[k].pulled[1].tag].due = Epoch + SumLatency(k)
    /\ (k + 1 \in DOMAIN calls => calls[k + 1].kind = "none")
          => now = Epoch + SumLatency(k)

PulledLatencies == [i \in 1..Len(calls[1].pulled) |-> calls[1].pulled[i].ms]
SettledAt ==
    [i \in 1..Len(calls[1].pulled) |-> bundles[calls[1].pulled[i].tag].due - Epoch]

\* C18: in a swarm on a default connection the fetches of the first two
\* requests start at the same instant and every later fetch starts at the
\* instant an earlier one completed; latencies 300,400 are yielded at 300
\* and 400 ms, latencies 700,300,300,500,200 at 700, 300, 600, 1100, 900.
C18_SwarmRaceSchedule ==
    calls[1].kind = "swarm" =>
        /\ {1, 2} \subseteq Dispatched => bundles[1].start = bundles[2].start
        /\ \A b \in Dispatched :
              b > 2 => \E a \in DOMAIN bundles :
                          /\ a < b
                          /\ Settled(bundles, a)
                          /\ bundles[a].due = bundles[b].start
        /\ calls[1].pc = "done" /\ PulledLatencies = <<300, 400>>
              => SettledAt = <<300, 400>>
        /\ calls[1].pc = "done" /\ PulledLatencies = <<700, 300, 300, 500, 200>>
              => SettledAt = <<700, 300, 600, 1100, 900>>

\* a call that holds a descriptor it has pulled and not yet admitted
HoldsPending(d) == calls[d].pc = "awaitNext" /\ ~calls[d].reqDone

\* C19: no step admits a bundle of a call while a call issued later holds
\* a pending descriptor: the later call's admission comes first.
C19_LaterCallAdmitsFirst ==
    [][\A c \in DOMAIN calls :
          calls'[c].admitted # calls[c].admitted =>
              ~\E d \in DOMAIN calls : d > c /\ HoldsPending(d)]_vars

\* C20: on a fresh connection a bundle rejects only when its fetch
\* rejected (the test double's 999); a fetch that delivered a response,
\* 2xx or not, settles its bundle with a Result that carries the request
\* and the response with its status; the call yields nothing but such
\* Results, throws only the error of a rejected fetch, and when it reports
\* done it has yielded the Result of every request.
C20_AnyResponseIsAResult ==
    /\ \A b \in DOMAIN bundles :
          /\ bundles[b].state = "rejected" => bundles[b].request.status = 999
          /\ Settled(bundles, b) /\ bundles[b].request.status # 999 =>
                /\ Outcome(bundles, b).type = "Result"
                /\ Outcome(bundles, b).request = bundles[b].request
                /\ Outcome(bundles, b).response.status = bundles[b].request.status
    /\ \A i \in 1..Len(calls[1].yielded) :
          /\ calls[1].yielded[i].type = "Result"
          /\ calls[1].yielded[i].request \in Range(calls[1].pulled)
          /\ calls[1].yielded[i].response.status = calls[1].yielded[i].request.status
    /\ calls[1].pc = "thrown" =>
          /\ calls[1].error.type = "Error"
          /\ calls[1].error.request.status = 999
    /\ calls[1].pc = "done" => Range(YieldedTags(1)) = Range(PulledTags(1))

\* a call has ended after yielding the Result of a 404 response
C20_Witness ==
    /\ calls[1].pc = "done"
    /\ \E i \in 1..Len(calls[1].yielded) :
          /\ calls[1].yielded[i].type = "Result"
          /\ calls[1].yielded[i].response.status = 404
          /\ ~calls[1].yielded[i].response.ok

\* C21: with a timeout and no retry, no fetch is still running after the
\* timeout has elapsed since its dispatch and none delivers its response
\* later than that; without a timeout a bundle rejects only when its
\* fetch rejected.
C21_TimeoutFailsSlowFetch ==
    /\ timeoutMs > 0 /\ retry = 0 =>
          \A b \in DOMAIN bundles :
              /\ bundles[b].state = "fetch" =>
                    now <= bundles[b].start + timeoutMs
              /\ bundles[b].state = "fulfilled" =>
                    bundles[b].due <= bundles[b].start + timeoutMs
    /\ timeoutMs = 0 =>
          \A b \in DOMAIN bundles :
              bundles[b].state = "rejected" => bundles[b].request.status = 999

\* the value the claim gives for an accessor: the one supplied, else dflt
Supplied(name, dflt) == IF name \in DOMAIN options THEN options[name] ELSE dflt

\* C22: on a connection made by Connection.create(options), each accessor
\* returns the value supplied in options for its field, and 2, 150, 0, 0
\* for concurrency, minMsBetweenRequests, timeoutMs, retry when the field
\* was not supplied (all four with no options).
C22_DefaultsAndSuppliedOptions ==
    conn = "create" =>
        /\ concurrency = Supplied("concurrency", 2)
        /\ minMsBetweenRequests = Supplied("minMsBetweenRequests", 150)
        /\ timeoutMs = Supplied("timeoutMs", 0)
        /\ retry = Supplied("retry", 0)

\* a connection created with timeoutMs and retry only: those two are as
\* given, the other two are the defaults
C22_Witness ==
    /\ conn = "create"
    /\ DOMAIN options = {"timeoutMs", "retry"}
    /\ timeoutMs > 0 /\ retry > 0
    /\ concurrency = 2 /\ minMsBetweenRequests = 150

\* the bundles admitted by call c that are in the in-flight Map
InFlightOf(c) ==
    {i \in 1..Len(inflight) : bundles[inflight[i].b].owner = c}

\* C23: once a call has ended, by returning or by throwing the failure of
\* one of its bundles, none of the bundles it admitted is left in the
\* in-flight Map.
C23_EndedCallLeavesNothingInFlight ==
    \A c \in DOMAIN calls :
        calls[c].pc \in {"done", "thrown"} => InFlightOf(c) = {}

\* C24: in a single swarm, an outcome is yielded while the input is not
\* known to be exhausted only after the place its bundle left has been
\* refilled (every descriptor pulled is admitted, the Map is back at
\* `concurrency` bundles, so one more descriptor was pulled than outcomes
\* were evicted); and the swarm waits on Promise.race only when the Map
\* holds exactly `concurrency` bundles or the input is exhausted.
C24_RefillBeforeYield ==
    \A c \in DOMAIN calls :
        /\ calls[c].pc \in {"yield179", "yield182"} /\ ~calls[c].reqDone =>
              /\ Cardinality(calls[c].admitted) = Len(calls[c].pulled)
              /\ Size(inflight) = concurrency
              /\ Len(calls[c].pulled) = Len(calls[c].yielded) + concurrency
        /\ calls[c].pc = "race" =>
              Size(inflight) = concurrency \/ calls[c].reqDone

\* an outcome has been yielded with input remaining, after the refill
C24_Witness ==
    /\ calls[1].kind = "swarm" /\ calls[1].pc = "yield182"
    /\ ~calls[1].reqDone
    /\ Len(calls[1].yielded) = 1
    /\ Len(calls[1].pulled) = concurrency + 1
    /\ Size(inflight) = concurrency

\* the bundles whose outcome is still to come: admitted and not evicted
Pending == {b \in DOMAIN bundles : bundles[b].state \in {"delay", "fetch"}}

\* C25: every bundle id is one of 1 .. MAX_SAFE_INTEGER - 1, and no two
\* bundles that are in flight at the same time have the same id, also
\* after #unique has wrapped back to 1.
C25_IdsDistinctInFlight ==
    /\ unique \in 1..(MAX_SAFE_INTEGER - 1)
    /\ \A b \in DOMAIN bundles : bundles[b].id \in 1..(MAX_SAFE_INTEGER - 1)
    /\ \A a, b \in Pending : a # b => bundles[a].id # bundles[b].id

\* C26: a swarm pulls no descriptor and admits no bundle before its
\* consumer requests the first outcome, and at every point of its run it
\* has pulled at most yielded + concurrency + 1 descriptors.
C26_LazyPull ==
    \A c \in DOMAIN calls :
        /\ calls[c].pc = "created" =>
              /\ calls[c].pulled = <<>> /\ calls[c].admitted = {}
              /\ \A b \in DOMAIN bundles : bundles[b].owner # c
        /\ Len(calls[c].pulled) <= Len(calls[c].yielded) + concurrency + 1

\* C26: while a swarm is suspended at a yield it pulls no descriptor and
\* admits no bundle.
C26_NoPullAtYield ==
    [][\A c \in DOMAIN calls :
          calls[c].pc \in {"yield179", "yield182"} =>
              /\ calls'[c].pulled = calls[c].pulled
              /\ calls'[c].admitted = calls[c].admitted]_vars
====
